---- MODULE Spec2Model ----
(***************************************************************************)
(* A model of sqlite-backport-module.c: the Emacs dynamic module that      *)
(* wraps sqlite3 connections and prepared statements in user-ptr objects.  *)
(*                                                                         *)
(* The sqlite3 engine is an external library.  It is modelled as a black   *)
(* box: every call that returns a status returns one chosen from the       *)
(* statuses the call can produce, sqlite3_close and sqlite3_finalize       *)
(* release the resource they are given (the module ignores their return    *)
(* values and nulls its pointer unconditionally), and a prepared query has *)
(* a fixed number of result rows that sqlite3_step walks through.          *)
(***************************************************************************)
EXTENDS Integers, Sequences, FiniteSets, TLC

\* ---- bounds -------------------------------------------------------------
MaxObjs  == 2      \* user-ptr objects the host ever receives
MaxConns == 1      \* native connections ever opened
MaxStmts == 2      \* native statements ever prepared
MaxRows  == 2      \* result rows of one query
MaxVals  == 2      \* elements of a VALUES argument
MaxCount == 1      \* cap on db_count

\* bounds of SpecCodec, the values given to the codec
CodecLen == 2      \* bytes of a string
CodecInt == 2      \* magnitude of an integer

\* bounds of SpecOpen, the runs of sqlite-open, sqlite-close and the finalizer
OpenObjs  == 3     \* connection objects
OpenConns == 3     \* native connections
OpenAnon  == 4     \* cap on db_count

\* bound of SpecCursors, the runs of two cursors on one connection
CursorObjs == 3    \* objects: the connection and two cursors

\* ---- constants of the source --------------------------------------------
NULL == 0

Objs  == 1..MaxObjs
Conns == 1..MaxConns
Stmts == 1..MaxStmts

\* a host value that is not a user-ptr at all
NotUserPtr == 0

\* native statuses (sqlite3.h result codes, by name)
ErrorStatus == {"SQLITE_BUSY", "SQLITE_LOCKED", "SQLITE_ERROR"}

VARIABLES
  objs,      \* the user-ptr objects: finalizer identity and the struct behind it
  conns,     \* the engine's connections, each with the object made for it
  stmts,     \* the engine's prepared statements, each with the cursor object
             \* it was handed to (owner 0: none) and the count of its releases
  db_count,  \* the counter that names anonymous in-memory databases
  last,      \* the call the host made last: its result, signal and native calls
  crashed    \* the process was killed by an invalid memory access

vars == <<objs, conns, stmts, db_count, last, crashed>>

\* ---- signals and values returned to the host ----------------------------
NoSignal == [sym |-> "none", msg |-> ""]

\* xsignal: env->non_local_exit_signal keeps the first pending signal
xsignal(pending, sym, msg) ==
  IF pending = NoSignal THEN [sym |-> sym, msg |-> msg] ELSE pending

Nil        == [tag |-> "nil", rows |-> <<>>, obj |-> 0]
T          == [tag |-> "t", rows |-> <<>>, obj |-> 0]
IntVal     == [tag |-> "integer", rows |-> <<>>, obj |-> 0]
ObjVal(h)  == [tag |-> "user-ptr", rows |-> <<>>, obj |-> h]
RowVal(i)  == [tag |-> "row", rows |-> <<i>>, obj |-> 0]
Columns    == [tag |-> "columns", rows |-> <<>>, obj |-> 0]
RowsVal(r) == [tag |-> "rows", rows |-> r, obj |-> 0]
FullVal(r) == [tag |-> "columns+rows", rows |-> r, obj |-> 0]

\* one native call: the function, the resource it was given and whether that
\* resource had already been released when the call was made
ConnCall(f, c, cs) ==
  [f |-> f, kind |-> "db", id |-> c, arg |-> 0,
   stale |-> IF c \in DOMAIN cs THEN cs[c].state # "open" ELSE TRUE]
StmtCall(f, s, ss) ==
  [f |-> f, kind |-> "stmt", id |-> s, arg |-> 0,
   stale |-> IF s \in DOMAIN ss THEN ss[s].state # "live" ELSE TRUE]
BindCall(f, s, ss, i) ==
  [f |-> f, kind |-> "stmt", id |-> s, arg |-> i,
   stale |-> IF s \in DOMAIN ss THEN ss[s].state # "live" ELSE TRUE]
\* sqlite3_open_v2 on a name: n is the number in ":memory:n" (0: a file name)
OpenCall(c, n) ==
  [f |-> "sqlite3_open_v2", kind |-> "db", id |-> c, arg |-> n, stale |-> FALSE]

\* the arguments of a call beyond the object, as far as the call read them:
\* the elements of VALUES, the position whose native bind call fails (0:
\* none), and RETURN-TYPE
Input(elems, failAt, mode) == [elems |-> elems, failAt |-> failAt, mode |-> mode]
NoInput == Input(<<>>, 0, "nil")

Returned(op, arg, val, sig, calls, ret, stmt) ==
  [op |-> op, arg |-> arg, val |-> val, sig |-> sig, calls |-> calls,
   ret |-> ret, stmt |-> stmt, input |-> NoInput]

\* ---- struct Lisp_Sqlite / struct Lisp_Statement -------------------------
NoObj == [fin |-> "none", db |-> NULL, stmt |-> NULL, eof |-> FALSE,
          reachable |-> FALSE]

\* what is left of an object once its finalizer has run: free(ptr)
Collected == [fin |-> "collected", db |-> NULL, stmt |-> NULL, eof |-> FALSE,
              reachable |-> FALSE]

lisp_sqlite_make(db) ==
  [fin |-> "lisp_sqlite_free", db |-> db, stmt |-> NULL, eof |-> FALSE,
   reachable |-> TRUE]

lisp_statement_make(db, stmt) ==
  [fin |-> "lisp_statement_free", db |-> db, stmt |-> stmt, eof |-> FALSE,
   reachable |-> TRUE]

\* user_ptr_check: the finalizer of a user-ptr, NULL for anything else
user_ptr_check(value) ==
  IF value \in DOMAIN objs THEN objs[value].fin ELSE "none"

\* the values the host can pass: objects it still holds, or a non-user-ptr
Held == {h \in DOMAIN objs : objs[h].fin # "none" /\ objs[h].reachable}
Args == Held \cup {NotUserPtr}

FreeObj  == {h \in DOMAIN objs : objs[h].fin = "none"}
FreeConn == {c \in DOMAIN conns : conns[c].state = "unused"}
FreeStmt == {s \in DOMAIN stmts : stmts[s].state = "unused"}
Lowest(S) == CHOOSE x \in S : \A y \in S : x <= y

\* ---- the engine ---------------------------------------------------------
sqlite3_close(cs, c) ==
  [cs EXCEPT ![c].state = "closed", ![c].closes = @ + 1]

\* a finalized statement is destroyed: it has no rows and no position left
sqlite3_finalize(ss, s) ==
  [ss EXCEPT ![s].state = "finalized", ![s].finalizes = @ + 1,
             ![s].nrows = 0, ![s].pos = 0, ![s].halted = FALSE,
             ![s].everDone = FALSE]

\* ---- validation ---------------------------------------------------------
\* lisp_sqlite_check: the struct (ptr # NULL) or a signal
lisp_sqlite_check(db) ==
  LET finalizer == user_ptr_check(db) IN
  IF finalizer = "lisp_sqlite_free"
  THEN IF objs[db].db # NULL
       THEN [ptr |-> db, sig |-> NoSignal]
       ELSE [ptr |-> NULL, sig |-> xsignal(NoSignal, "error", "Database closed")]
  ELSE IF finalizer = "lisp_statement_free"
  THEN [ptr |-> NULL, sig |-> xsignal(NoSignal, "error", "Invalid database object")]
  ELSE [ptr |-> NULL, sig |-> xsignal(NoSignal, "wrong-type-argument", "sqlitep")]

lisp_statement_check(stmt) ==
  LET finalizer == user_ptr_check(stmt) IN
  IF finalizer = "lisp_statement_free"
  THEN IF objs[stmt].stmt # NULL
       THEN [ptr |-> stmt, sig |-> NoSignal]
       ELSE [ptr |-> NULL, sig |-> xsignal(NoSignal, "error", "Statement closed")]
  ELSE IF finalizer = "lisp_sqlite_free"
  THEN [ptr |-> NULL, sig |-> xsignal(NoSignal, "error", "Invalid set object")]
  ELSE [ptr |-> NULL, sig |-> xsignal(NoSignal, "wrong-type-argument", "sqlitep")]

\* ---- initial state ------------------------------------------------------
\* a connection that sqlite3_open_v2 has not made yet, a statement that
\* sqlite3_prepare_v2 has not made yet
NoConn == [state |-> "unused", closes |-> 0, name |-> <<"none", 0>>, owner |-> 0]
NoStmt == [state |-> "unused", db |-> NULL, nrows |-> 0, pos |-> 0,
           halted |-> FALSE, everDone |-> FALSE, finalizes |-> 0, owner |-> 0]

Init ==
  /\ objs = [h \in Objs |-> NoObj]
  /\ conns = [c \in Conns |-> NoConn]
  /\ stmts = [s \in Stmts |-> NoStmt]
  /\ db_count = 0
  /\ last = Returned("init", NotUserPtr, Nil, NoSignal, <<>>, "SQLITE_OK", NULL)
  /\ crashed = FALSE

\* ---- sqlite-open --------------------------------------------------------
\* (an open that names every in-memory database with the same number)
OpenCountKept(file, count) == count

\* db_count once the name is made: ++db_count when no file name is given
OpenCount(file, count) == IF file THEN count ELSE count + 1

\* file: a file name was given; ok: sqlite3_open_v2 returned SQLITE_OK
Fsqlite_open(file, ok) ==
  /\ ~crashed
  /\ LET count == OpenCount(file, db_count)
         name  == IF file THEN <<"file", 0>> ELSE <<":memory:", count>>
     IN
     /\ db_count' = count
     /\ IF ok
        THEN /\ FreeConn # {} /\ FreeObj # {}
             /\ LET sdb == Lowest(FreeConn)
                    h   == Lowest(FreeObj)
                IN /\ conns' = [conns EXCEPT ![sdb].state = "open", ![sdb].name = name,
                                            ![sdb].owner = h]
                   /\ objs' = [objs EXCEPT ![h] = lisp_sqlite_make(sdb)]
                   /\ last' = Returned("open", NotUserPtr, ObjVal(h), NoSignal,
                                       <<OpenCall(sdb, name[2])>>,
                                       "SQLITE_OK", NULL)
        ELSE /\ UNCHANGED <<conns, objs>>
             /\ last' = Returned("open", NotUserPtr, Nil, NoSignal,
                                 <<OpenCall(NULL, name[2])>>,
                                 "SQLITE_ERROR", NULL)
  /\ UNCHANGED <<stmts, crashed>>

\* ---- sqlite-close -------------------------------------------------------
\* (a close that forgets ptr->db = NULL)
ClosedDbKept(db) == db

\* the pointer Fsqlite_close leaves in the struct
ClosedDb(db) == NULL

Fsqlite_close(a) ==
  /\ ~crashed
  /\ LET chk == lisp_sqlite_check(a) IN
     IF chk.ptr = NULL
     THEN /\ last' = Returned("close", a, Nil, chk.sig, <<>>, "SQLITE_OK", NULL)
          /\ UNCHANGED <<objs, conns>>
     ELSE LET db == objs[chk.ptr].db IN
          /\ conns' = sqlite3_close(conns, db)
          /\ objs' = [objs EXCEPT ![chk.ptr].db = ClosedDb(db)]
          /\ last' = Returned("close", a, T, NoSignal,
                              <<ConnCall("sqlite3_close", db, conns)>>,
                              "SQLITE_OK", NULL)
  /\ UNCHANGED <<stmts, db_count, crashed>>

\* ---- the finalizers, run by the garbage collector -----------------------
\* lisp_sqlite_free closes the connection when the pointer is set
FreeCloses(db) == db # NULL

lisp_sqlite_free(h) ==
  /\ ~crashed
  /\ h \in Held /\ objs[h].fin = "lisp_sqlite_free"
  /\ LET db == objs[h].db IN
     /\ conns' = IF FreeCloses(db) THEN sqlite3_close(conns, db) ELSE conns
     /\ last' = Returned("gc", h, Nil, NoSignal,
                         IF FreeCloses(db)
                         THEN <<ConnCall("sqlite3_close", db, conns)>> ELSE <<>>,
                         "SQLITE_OK", NULL)
  /\ objs' = [objs EXCEPT ![h] = Collected]
  /\ UNCHANGED <<stmts, db_count, crashed>>

\* lisp_statement_free finalizes the statement when the pointer is set
FreeFinalizes(stmt) == stmt # NULL

lisp_statement_free(h) ==
  /\ ~crashed
  /\ h \in Held /\ objs[h].fin = "lisp_statement_free"
  /\ LET stmt == objs[h].stmt IN
     /\ stmts' = IF FreeFinalizes(stmt) THEN sqlite3_finalize(stmts, stmt) ELSE stmts
     /\ last' = Returned("gc", h, Nil, NoSignal,
                         IF FreeFinalizes(stmt)
                         THEN <<StmtCall("sqlite3_finalize", stmt, stmts)>> ELSE <<>>,
                         "SQLITE_OK", NULL)
  /\ objs' = [objs EXCEPT ![h] = Collected]
  /\ UNCHANGED <<conns, db_count, crashed>>

\* ---- sqlite-transaction / commit / rollback / pragma --------------------
\* (a flag operation that answers t whatever sqlite3_exec returned)
ExecValueAlways(ok) == T

\* the value of a flag operation: nil when sqlite3_exec did not return
\* SQLITE_OK (ok is false), t when it did
ExecValue(ok) == IF ok THEN T ELSE Nil

\* Fsqlite_transaction does not test the pointer lisp_sqlite_check returned:
\* with ptr = NULL, ptr->db reads through a null pointer.  The read either
\* kills the process, or yields some word that is handed to sqlite3_exec.
Fsqlite_transaction(a, ok) ==
  /\ ~crashed
  /\ LET chk == lisp_sqlite_check(a) IN
     IF chk.ptr = NULL
     THEN \/ /\ crashed' = TRUE
             /\ last' = Returned("transaction", a, Nil, chk.sig, <<>>,
                                 "SQLITE_OK", NULL)
          \/ /\ crashed' = FALSE
             /\ last' = Returned("transaction", a, ExecValue(ok), chk.sig,
                                 <<ConnCall("sqlite3_exec", NULL, conns)>>,
                                 IF ok THEN "SQLITE_OK" ELSE "SQLITE_ERROR", NULL)
     ELSE /\ crashed' = crashed
          /\ last' = Returned("transaction", a, ExecValue(ok), NoSignal,
                              <<ConnCall("sqlite3_exec", objs[chk.ptr].db, conns)>>,
                              IF ok THEN "SQLITE_OK" ELSE "SQLITE_ERROR", NULL)
  /\ UNCHANGED <<objs, conns, stmts, db_count>>

\* commit, rollback and pragma share one shape: validate, one sqlite3_exec
ExecFlag(op, a, ok) ==
  /\ ~crashed
  /\ LET chk == lisp_sqlite_check(a) IN
     IF chk.ptr = NULL
     THEN last' = Returned(op, a, Nil, chk.sig, <<>>, "SQLITE_OK", NULL)
     ELSE last' = Returned(op, a, ExecValue(ok), NoSignal,
                           <<ConnCall("sqlite3_exec", objs[chk.ptr].db, conns)>>,
                           IF ok THEN "SQLITE_OK" ELSE "SQLITE_ERROR", NULL)
  /\ UNCHANGED <<objs, conns, stmts, db_count, crashed>>

Fsqlite_commit(a, ok)   == ExecFlag("commit", a, ok)
Fsqlite_rollback(a, ok) == ExecFlag("rollback", a, ok)
Fsqlite_pragma(a, ok)   == ExecFlag("pragma", a, ok)

\* ---- sqlite3_step -------------------------------------------------------
\* The statement walks its nrows result rows; after SQLITE_DONE the next
\* step starts the query again.  A failing step leaves the position alone.
StepOutcomes(st) ==
  LET p == IF st.halted THEN 0 ELSE st.pos IN
  {[ret |-> e, pos |-> st.pos, halted |-> st.halted] : e \in ErrorStatus}
  \cup
  {IF p < st.nrows
   THEN [ret |-> "SQLITE_ROW", pos |-> p + 1, halted |-> FALSE]
   ELSE [ret |-> "SQLITE_DONE", pos |-> p, halted |-> TRUE]}

\* (a step that moves every statement of the engine, not the one it is given)
sqlite3_step_all(ss, s, out) ==
  [t \in DOMAIN ss |->
     [ss[t] EXCEPT !.pos = out.pos, !.halted = out.halted,
                   !.everDone = @ \/ out.ret = "SQLITE_DONE"]]

sqlite3_step(ss, s, out) ==
  [ss EXCEPT ![s].pos = out.pos, ![s].halted = out.halted,
             ![s].everDone = @ \/ out.ret = "SQLITE_DONE"]

\* ---- sqlite-next --------------------------------------------------------
\* (a next that writes ptr->eof = (ret == SQLITE_DONE) on every step)
NextEofAssigned(eof, ret) == ret = "SQLITE_DONE"

\* the end-of-data flag after a step that returned ret
NextEof(eof, ret) == IF ret = "SQLITE_DONE" THEN TRUE ELSE eof

\* (a next that signals for SQLITE_ERROR alone)
NextFailsErrorOnly(ret) == ret = "SQLITE_ERROR"

\* the step status makes Fsqlite_next signal
NextFails(ret) == ret \notin {"SQLITE_ROW", "SQLITE_OK", "SQLITE_DONE"}

Fsqlite_next(a) ==
  /\ ~crashed
  /\ LET chk == lisp_statement_check(a) IN
     IF chk.ptr = NULL
     THEN /\ last' = Returned("next", a, Nil, chk.sig, <<>>, "SQLITE_OK", NULL)
          /\ UNCHANGED <<objs, stmts>>
     ELSE \E out \in StepOutcomes(stmts[objs[chk.ptr].stmt]) :
          LET s   == objs[chk.ptr].stmt
              ss1 == sqlite3_step(stmts, s, out)
              c1  == <<StmtCall("sqlite3_step", s, stmts)>>
          IN
          /\ stmts' = ss1
          /\ IF NextFails(out.ret)
             THEN /\ last' = Returned("next", a, Nil,
                                      xsignal(NoSignal, "error", "sqlite3_errmsg"),
                                      c1 \o <<ConnCall("sqlite3_errmsg",
                                                       objs[chk.ptr].db, conns)>>,
                                      out.ret, s)
                  /\ UNCHANGED objs
             ELSE IF out.ret = "SQLITE_DONE"
             THEN /\ objs' = [objs EXCEPT ![chk.ptr].eof = NextEof(@, out.ret)]
                  /\ last' = Returned("next", a, Nil, NoSignal, c1, out.ret, s)
             ELSE /\ objs' = [objs EXCEPT ![chk.ptr].eof = NextEof(@, out.ret)]
                  /\ last' = Returned("next", a, RowVal(out.pos), NoSignal,
                                      c1 \o <<StmtCall("sqlite3_column_count", s, ss1)>>,
                                      out.ret, s)
  /\ UNCHANGED <<conns, db_count, crashed>>

\* ---- sqlite-columns -----------------------------------------------------
Fsqlite_columns(a) ==
  /\ ~crashed
  /\ LET chk == lisp_statement_check(a) IN
     IF chk.ptr = NULL
     THEN last' = Returned("columns", a, Nil, chk.sig, <<>>, "SQLITE_OK", NULL)
     ELSE last' = Returned("columns", a, Columns, NoSignal,
                           <<StmtCall("sqlite3_column_count", objs[chk.ptr].stmt, stmts)>>,
                           "SQLITE_OK", objs[chk.ptr].stmt)
  /\ UNCHANGED <<objs, conns, stmts, db_count, crashed>>

\* ---- sqlite-more-p ------------------------------------------------------
\* (a more-p that tests the flag the wrong way round)
MorePInverted(eof) == IF eof THEN T ELSE Nil

\* (a more-p that answers t whatever the flag says)
MorePAlways(eof) == T

\* the value of sqlite-more-p for a cursor whose end-of-data flag is eof
MoreP(eof) == IF ~eof THEN T ELSE Nil

Fsqlite_more_p(a) ==
  /\ ~crashed
  /\ LET chk == lisp_statement_check(a) IN
     IF chk.ptr = NULL
     THEN last' = Returned("more-p", a, Nil, chk.sig, <<>>, "SQLITE_OK", NULL)
     ELSE last' = Returned("more-p", a, MoreP(objs[chk.ptr].eof), NoSignal, <<>>,
                           "SQLITE_OK", objs[chk.ptr].stmt)
  /\ UNCHANGED <<objs, conns, stmts, db_count, crashed>>

\* ---- sqlite-finalize ----------------------------------------------------
\* (a finalize that forgets ptr->stmt = NULL)
FinalizedStmtKept(stmt) == stmt

\* the pointer Fsqlite_finalize leaves in the struct
FinalizedStmt(stmt) == NULL

Fsqlite_finalize(a) ==
  /\ ~crashed
  /\ LET chk == lisp_statement_check(a) IN
     IF chk.ptr = NULL
     THEN /\ last' = Returned("finalize", a, Nil, chk.sig, <<>>, "SQLITE_OK", NULL)
          /\ UNCHANGED <<objs, stmts>>
     ELSE LET s == objs[chk.ptr].stmt IN
          /\ stmts' = sqlite3_finalize(stmts, s)
          /\ objs' = [objs EXCEPT ![chk.ptr].stmt = FinalizedStmt(s)]
          /\ last' = Returned("finalize", a, T, NoSignal,
                              <<StmtCall("sqlite3_finalize", s, stmts)>>,
                              "SQLITE_OK", s)
  /\ UNCHANGED <<conns, db_count, crashed>>

\* ---- bind_values --------------------------------------------------------
\* the kinds of element a VALUES sequence can hold
ElemKinds == {"string", "blob", "multibyte-blob", "integer", "float",
              "nil", "t", "false", "symbol"}

\* the native bind call an element of a supported kind is given to
BindFn(e) ==
  CASE e = "string"  -> "sqlite3_bind_text"
    [] e = "blob"    -> "sqlite3_bind_blob"
    [] e = "integer" -> "sqlite3_bind_int64"
    [] e = "float"   -> "sqlite3_bind_double"
    [] e = "nil"     -> "sqlite3_bind_null"
    [] OTHER         -> "sqlite3_bind_int"

\* (a loop that does not test the status of the native bind call)
BindFailsNever(i, failAt) == FALSE

\* ret != SQLITE_OK after the native bind call of position i
BindFails(i, failAt) == i = failAt

\* The loop of bind_values from position i on; failAt is the position whose
\* native bind call returns a status other than SQLITE_OK (0: none does).
\* Result: the error text (NoErr for NULL), the pending signal, the calls.
NoErr == "NULL"

RECURSIVE BindLoop(_, _, _, _, _, _, _, _)
BindLoop(i, elems, failAt, s, ss, db, cs, calls) ==
  IF i > Len(elems)
  THEN [err |-> NoErr, sig |-> NoSignal, calls |-> calls]
  ELSE IF elems[i] = "multibyte-blob"
  THEN [err |-> "",
        sig |-> xsignal(NoSignal, "error", "BLOB values must be unibyte"),
        calls |-> calls]
  ELSE IF elems[i] = "symbol"
  THEN [err |-> "invalid argument", sig |-> NoSignal, calls |-> calls]
  ELSE LET c == Append(calls, BindCall(BindFn(elems[i]), s, ss, i)) IN
       IF BindFails(i, failAt)
       THEN [err |-> "sqlite3_errmsg", sig |-> NoSignal,
             calls |-> Append(c, ConnCall("sqlite3_errmsg", db, cs))]
       ELSE BindLoop(i + 1, elems, failAt, s, ss, db, cs, c)

bind_values(elems, failAt, s, ss, db, cs) ==
  BindLoop(1, elems, failAt, s, ss, db, cs, <<StmtCall("sqlite3_reset", s, ss)>>)

\* the VALUES argument: not given, nil, a list, a vector, or something else
SeqsUpTo(S, n) == UNION {[1..k -> S] : k \in 0..n}

\* the elements the calls of this model are given: one that binds, and the
\* two that bind_values rejects
ElemInputs == {"integer", "multibyte-blob", "symbol"}

OtherValues == [shape |-> "other", elems |-> <<>>]

ValuesArgs ==
  {[shape |-> sh, elems |-> <<>>] : sh \in {"absent", "nil", "other"}}
  \cup
  {[shape |-> sh, elems |-> e] :
     sh \in {"cons", "vector"}, e \in SeqsUpTo(ElemInputs, MaxVals) \ {<<>>}}

\* (nargs > 2) && !NILP (args[2])
HasValues(vals) == vals.shape \notin {"absent", "nil"}

\* The VALUES arguments that pass the test of their shape, one for each
\* sequence of elements: a list and a vector of the same elements go through
\* bind_values alike (car/cdr or vec_get), as do no argument and nil.
BoundValues ==
  {v \in ValuesArgs : v.shape \in {"nil", "cons"}}

\* the positions of elems that bind_values gives to a native bind call when
\* every call before succeeds: those before the first element it rejects
BindPositions(elems) ==
  {i \in 1..Len(elems) :
     \A j \in 1..i : elems[j] \notin {"multibyte-blob", "symbol"}}

\* ---- the value codec: one element of bind_values, one column of a row ---
\* A host value: its type_of, the symbol's name, the coding-system text
\* property at position 0 of a string, the string's length in characters,
\* its bytes as copy_string_contents gives them (UTF-8), and its number.
HostValue(type, name, coding, len, bytes, num) ==
  [type |-> type, name |-> name, coding |-> coding, len |-> len,
   bytes |-> bytes, num |-> num]

HostSymbol(name) == HostValue("symbol", name, "nil", 0, <<>>, 0)
HostInteger(n)   == HostValue("integer", "", "nil", 0, <<>>, n)
HostFloat(n)     == HostValue("float", "", "nil", 0, <<>>, n)

\* the bytes of the model: NUL, a, and the two bytes of e-acute in UTF-8
Bytes == {0, 97, 195, 169}

\* characters of a UTF-8 byte sequence: the bytes that continue none
CharCount(bytes) ==
  Cardinality({i \in 1..Len(bytes) : bytes[i] < 128 \/ bytes[i] > 191})

\* a byte sequence that is the UTF-8 of some text
WellFormed(bytes) ==
  \A i \in 1..Len(bytes) :
    /\ bytes[i] = 195 => (i < Len(bytes) /\ bytes[i + 1] = 169)
    /\ bytes[i] = 169 => (i > 1 /\ bytes[i - 1] = 195)

\* env->copy_string_contents: the bytes and a terminating NUL; the size it
\* reports is the length of this buffer
copy_string_contents(value) == Append(value.bytes, 0)

\* a column of a result row as the engine holds it
Cell(type, bytes, num) == [type |-> type, bytes |-> bytes, num |-> num]

\* the NULL pointer where a buffer is expected (a buffer has one byte at least)
NoBuffer == <<>>

\* sqlite3_bind_text / sqlite3_bind_blob given a buffer and a byte count:
\* the first n bytes of the buffer, and SQL NULL for a null buffer
BindBytes(type, buf, n) ==
  IF buf = NoBuffer THEN Cell("SQLITE_NULL", <<>>, 0)
  ELSE Cell(type, SubSeq(buf, 1, n), 0)

\* (a bind that passes the size of the buffer, terminating NUL included)
BoundLenWhole(size) == size

\* the byte count bind_values passes for a buffer of size bytes: size - 1
BoundLen(size) == size - 1

\* The body of the loop of bind_values for one element: the error (NoErr:
\* ret == SQLITE_OK and no return) and the column the engine is given.
bind_value(value) ==
  LET encoded == copy_string_contents(value)
      size    == Len(encoded)
      ok(c)   == [err |-> NoErr, cell |-> c]
      fail(e) == [err |-> e, cell |-> Cell("none", <<>>, 0)]
  IN
  IF value.type = "string"
  THEN IF value.coding = "binary"
       THEN IF size # 0
            THEN IF size # value.len + 1
                 THEN fail("BLOB values must be unibyte")
                 ELSE ok(BindBytes("SQLITE_BLOB", encoded, BoundLen(size)))
            ELSE ok(BindBytes("SQLITE_BLOB", NoBuffer, 0))
       ELSE IF size # 0
            THEN ok(BindBytes("SQLITE_TEXT", encoded, BoundLen(size)))
            ELSE ok(BindBytes("SQLITE_TEXT", NoBuffer, 0))
  ELSE IF value.type = "integer" THEN ok(Cell("SQLITE_INTEGER", <<>>, value.num))
  ELSE IF value.type = "float" THEN ok(Cell("SQLITE_FLOAT", <<>>, value.num))
  ELSE IF value = HostSymbol("nil") THEN ok(Cell("SQLITE_NULL", <<>>, 0))
  ELSE IF value = HostSymbol("t") THEN ok(Cell("SQLITE_INTEGER", <<>>, 1))
  ELSE IF value = HostSymbol("false") THEN ok(Cell("SQLITE_INTEGER", <<>>, 0))
  ELSE fail("invalid argument")

\* The body of the loop of row_to_value for one column: make_int,
\* make_float, make_unibyte_string, make_string, or nil.
column_value(cell) ==
  CASE cell.type = "SQLITE_INTEGER" -> HostInteger(cell.num)
    [] cell.type = "SQLITE_FLOAT"   -> HostFloat(cell.num)
    [] cell.type = "SQLITE_BLOB"    ->
         HostValue("string", "", "nil", Len(cell.bytes), cell.bytes, 0)
    [] cell.type = "SQLITE_TEXT"    ->
         HostValue("string", "", "nil", CharCount(cell.bytes), cell.bytes, 0)
    [] OTHER                        -> HostSymbol("nil")

\* the values given to the codec
ByteSeqs == SeqsUpTo(Bytes, CodecLen)

CodecInputs ==
  {HostValue("string", "", "nil", CharCount(b), b, 0) :
     b \in {x \in ByteSeqs : WellFormed(x)}}
  \cup {HostValue("string", "", "binary", Len(b), b, 0) : b \in ByteSeqs}
  \cup {HostValue("string", "", "binary", CharCount(b), b, 0) :
          b \in {x \in ByteSeqs : WellFormed(x)}}
  \cup {HostInteger(n) : n \in (0 - CodecInt)..CodecInt}
  \cup {HostFloat(n) : n \in (0 - CodecInt)..CodecInt}
  \cup {HostSymbol(n) : n \in {"nil", "t", "false", "foo"}}

\* ---- sqlite3_prepare_v2 -------------------------------------------------
\* SQLITE_OK with a statement of some number of rows, or a failure status
\* with or without a statement left in *ppStmt
PrepareOutcomes ==
  {[ret |-> "SQLITE_OK", stmt |-> TRUE, nrows |-> n] : n \in 0..MaxRows}
  \cup
  {[ret |-> e, stmt |-> b, nrows |-> 0] : e \in ErrorStatus, b \in BOOLEAN}

NewStmt(db, nrows) ==
  [state |-> "live", db |-> db, nrows |-> nrows, pos |-> 0, halted |-> FALSE,
   everDone |-> FALSE, finalizes |-> 0, owner |-> 0]

\* ---- sqlite-execute -----------------------------------------------------
\* (an exit label that tests SQLITE_LOCKED alone)
ExitSymLockedOnly(ret) ==
  IF ret = "SQLITE_LOCKED" THEN "sqlite_locked_error" ELSE "error"

\* the signal Fsqlite_execute raises at its exit label
ExitSym(ret) ==
  IF ret = "SQLITE_LOCKED" \/ ret = "SQLITE_BUSY"
  THEN "sqlite_locked_error" ELSE "error"

\* (an execute that does not test the status of the step)
ExecuteFailsNever(ret) == FALSE

\* the step status makes Fsqlite_execute fail
ExecuteFails(ret) == ret # "SQLITE_OK" /\ ret # "SQLITE_DONE"

\* the VALUES argument is read only once the statement is prepared
Fsqlite_execute(a) ==
  /\ ~crashed
  /\ UNCHANGED <<objs, conns, db_count>>
  /\ LET chk == lisp_sqlite_check(a)
         RetIn(val, sig, calls, ret, s, ss, cr, in) ==
           /\ last' = [Returned("execute", a, val, sig, calls, ret, s)
                         EXCEPT !.input = in]
           /\ stmts' = ss
           /\ crashed' = cr
         Ret(val, sig, calls, ret, s, ss, cr) ==
           RetIn(val, sig, calls, ret, s, ss, cr, NoInput)
     IN
     IF chk.ptr = NULL
     THEN Ret(Nil, chk.sig, <<>>, "SQLITE_OK", NULL, stmts, FALSE)
     ELSE
     \* CHECK_STRING (args[1]), then the shape of args[2]
     \/ Ret(Nil, xsignal(NoSignal, "wrong-type-argument", "stringp"),
            <<>>, "SQLITE_OK", NULL, stmts, FALSE)
     \/ Ret(Nil, xsignal(NoSignal, "error", "VALUES must be a list or a vector"),
            <<>>, "SQLITE_OK", NULL, stmts, FALSE)
     \/ \E prep \in PrepareOutcomes :
        LET db == objs[chk.ptr].db
            c0 == <<ConnCall("sqlite3_prepare_v2", db, conns)>>
        IN
        IF prep.ret # "SQLITE_OK"
        THEN IF prep.stmt
             THEN \* sqlite3_finalize (stmt); sqlite3_reset (stmt): the reset
                  \* reads freed memory, which may kill the process
                  /\ FreeStmt # {}
                  /\ LET s   == Lowest(FreeStmt)
                         ss1 == [stmts EXCEPT ![s] = NewStmt(db, 0)]
                         ss2 == sqlite3_finalize(ss1, s)
                         c1  == c0 \o <<StmtCall("sqlite3_finalize", s, ss1),
                                        StmtCall("sqlite3_reset", s, ss2)>>
                     IN \/ Ret(Nil, NoSignal, c1, prep.ret, s, ss2, TRUE)
                        \/ Ret(Nil, xsignal(NoSignal, ExitSym(prep.ret), "sqlite3_errmsg"),
                               c1 \o <<ConnCall("sqlite3_errmsg", db, conns)>>,
                               prep.ret, s, ss2, FALSE)
             ELSE Ret(Nil, xsignal(NoSignal, ExitSym(prep.ret), "sqlite3_errmsg"),
                      c0 \o <<ConnCall("sqlite3_errmsg", db, conns)>>,
                      prep.ret, NULL, stmts, FALSE)
        ELSE
        /\ FreeStmt # {}
        /\ \E vals \in BoundValues :
           \E failAt \in {0} \cup BindPositions(vals.elems) :
           LET s    == Lowest(FreeStmt)
               ss1  == [stmts EXCEPT ![s] = NewStmt(db, prep.nrows)]
               bind == IF HasValues(vals)
                       THEN bind_values(vals.elems, failAt, s, ss1, db, conns)
                       ELSE [err |-> NoErr, sig |-> NoSignal, calls |-> <<>>]
               c1   == c0 \o bind.calls
               in   == Input(vals.elems, failAt, "nil")
           IN
           IF bind.err # NoErr
           THEN \* errmsg = err; goto exit;  (ret is still SQLITE_OK)
                RetIn(Nil, xsignal(bind.sig, ExitSym(prep.ret), bind.err),
                      c1, prep.ret, s, ss1, FALSE, in)
           ELSE
           \E out \in StepOutcomes(ss1[s]) :
              LET ss2 == sqlite3_step(ss1, s, out)
                  ss3 == sqlite3_finalize(ss2, s)
                  c2  == c1 \o <<StmtCall("sqlite3_step", s, ss1),
                                 StmtCall("sqlite3_finalize", s, ss2)>>
              IN IF ExecuteFails(out.ret)
                 THEN RetIn(Nil, xsignal(NoSignal, ExitSym(out.ret), "sqlite3_errmsg"),
                            c2 \o <<ConnCall("sqlite3_errmsg", db, conns)>>,
                            out.ret, s, ss3, FALSE, in)
                 ELSE RetIn(IntVal, NoSignal,
                            c2 \o <<ConnCall("sqlite3_changes", db, conns)>>,
                            out.ret, s, ss3, FALSE, in)

\* ---- sqlite-select ------------------------------------------------------
\* while ((ret = sqlite3_step(stmt)) == SQLITE_ROW) retval = cons(row, retval):
\* every way the loop can run on statement record st, as the status that ends
\* it, the rows collected (by position) and the statement it leaves
RECURSIVE StepLoop(_, _, _)
StepLoop(st, rows, n) ==
  UNION {IF o.ret = "SQLITE_ROW"
         THEN StepLoop([st EXCEPT !.pos = o.pos, !.halted = o.halted],
                       Append(rows, o.pos), n + 1)
         ELSE {[ret |-> o.ret, rows |-> rows, steps |-> n + 1,
                pos |-> o.pos, halted |-> o.halted]}
         : o \in StepOutcomes(st)}

\* the native calls of a loop that collected k rows
LoopCalls(s, ss, k) ==
  [j \in 1..(2 * k + 1) |->
     IF j % 2 = 1 THEN StmtCall("sqlite3_step", s, ss)
     ELSE StmtCall("sqlite3_column_count", s, ss)]

\* RETURN-TYPE: set, full, or anything else (not given, nil, another symbol)
Modes == {"nil", "full", "set", "other"}

\* (nargs > 3) && EQ(args[3], Q(set))
SetMode(mode) == mode = "set"

\* (a select that prepends the column names unless the mode is set)
FullModeAlways(mode) == TRUE

\* (nargs > 3) && EQ(args[3], Q(full))
FullMode(mode) == mode = "full"

\* what the eager modes do with the status that ended the loop
SelectFails(ret) == FALSE

\* the VALUES argument is read once the statement is prepared, the
\* RETURN-TYPE argument (mode) once the values are bound
Fsqlite_select(a) ==
  /\ ~crashed
  /\ UNCHANGED <<conns, db_count, crashed>>
  /\ LET chk == lisp_sqlite_check(a)
         RetIn(val, sig, calls, ret, s, ss, os, in) ==
           /\ last' = [Returned("select", a, val, sig, calls, ret, s)
                         EXCEPT !.input = in]
           /\ stmts' = ss
           /\ objs' = os
         Ret(val, sig, calls, ret, s, ss, os) ==
           RetIn(val, sig, calls, ret, s, ss, os, NoInput)
     IN
     IF chk.ptr = NULL
     THEN Ret(Nil, chk.sig, <<>>, "SQLITE_OK", NULL, stmts, objs)
     ELSE
     \* CHECK_STRING (args[1])
     \/ Ret(Nil, xsignal(NoSignal, "wrong-type-argument", "stringp"),
            <<>>, "SQLITE_OK", NULL, stmts, objs)
     \/ \E prep \in PrepareOutcomes :
        LET db == objs[chk.ptr].db
            c0 == <<ConnCall("sqlite3_prepare_v2", db, conns)>>
        IN
        IF prep.ret # "SQLITE_OK"
        THEN IF prep.stmt
             THEN /\ FreeStmt # {}
                  /\ LET s   == Lowest(FreeStmt)
                         ss1 == [stmts EXCEPT ![s] = NewStmt(db, 0)]
                         ss2 == sqlite3_finalize(ss1, s)
                     IN Ret(Nil, xsignal(NoSignal, "error", "sqlite3_errmsg"),
                            c0 \o <<StmtCall("sqlite3_finalize", s, ss1)>>,
                            prep.ret, s, ss2, objs)
             ELSE Ret(Nil, xsignal(NoSignal, "error", "sqlite3_errmsg"),
                      c0, prep.ret, NULL, stmts, objs)
        ELSE
        /\ FreeStmt # {}
        /\ \E vals \in BoundValues :
           \E failAt \in {0} \cup BindPositions(vals.elems) :
           LET s    == Lowest(FreeStmt)
               ss1  == [stmts EXCEPT ![s] = NewStmt(db, prep.nrows)]
               bind == IF HasValues(vals)
                       THEN bind_values(vals.elems, failAt, s, ss1, db, conns)
                       ELSE [err |-> NoErr, sig |-> NoSignal, calls |-> <<>>]
               c1   == c0 \o bind.calls
           IN
           IF bind.err # NoErr
           THEN RetIn(Nil, xsignal(bind.sig, "error", bind.err),
                      c1 \o <<StmtCall("sqlite3_finalize", s, ss1)>>,
                      prep.ret, s, sqlite3_finalize(ss1, s), objs,
                      Input(vals.elems, failAt, "nil"))
           ELSE
           \E mode \in Modes :
           LET in == Input(vals.elems, failAt, mode) IN
           IF SetMode(mode)
           THEN /\ FreeObj # {}
                /\ LET h == Lowest(FreeObj) IN
                   RetIn(ObjVal(h), NoSignal, c1, prep.ret, s,
                         [ss1 EXCEPT ![s].owner = h],
                         [objs EXCEPT ![h] = lisp_statement_make(db, s)], in)
           ELSE
           \E run \in StepLoop(ss1[s], <<>>, 0) :
              LET ss2 == sqlite3_step(ss1, s, run)
                  ss3 == sqlite3_finalize(ss2, s)
                  c2  == c1 \o LoopCalls(s, ss1, Len(run.rows))
                  c3  == IF FullMode(mode)
                         THEN Append(c2, StmtCall("sqlite3_column_name", s, ss2))
                         ELSE c2
                  c4  == Append(c3, StmtCall("sqlite3_finalize", s, ss2))
              IN IF SelectFails(run.ret)
                 THEN RetIn(Nil, xsignal(NoSignal, "error", "sqlite3_errmsg"),
                            c4, run.ret, s, ss3, objs, in)
                 ELSE RetIn(IF FullMode(mode)
                            THEN FullVal(run.rows) ELSE RowsVal(run.rows),
                            NoSignal, c4, run.ret, s, ss3, objs, in)

Next ==
  \/ \E file \in BOOLEAN, ok \in BOOLEAN :
        (file \/ db_count < MaxCount) /\ Fsqlite_open(file, ok)
  \/ \E a \in Args : Fsqlite_close(a)
  \/ \E a \in Args : Fsqlite_execute(a)
  \/ \E a \in Args : Fsqlite_select(a)
  \/ \E a \in Args, ok \in BOOLEAN : Fsqlite_transaction(a, ok)
  \/ \E a \in Args, ok \in BOOLEAN : Fsqlite_commit(a, ok)
  \/ \E a \in Args, ok \in BOOLEAN : Fsqlite_rollback(a, ok)
  \/ \E a \in Args, ok \in BOOLEAN : Fsqlite_pragma(a, ok)
  \/ \E a \in Args : Fsqlite_next(a)
  \/ \E a \in Args : Fsqlite_columns(a)
  \/ \E a \in Args : Fsqlite_more_p(a)
  \/ \E a \in Args : Fsqlite_finalize(a)
  \/ \E h \in Held : lisp_sqlite_free(h)
  \/ \E h \in Held : lisp_statement_free(h)

Spec == Init /\ [][Next]_vars

\* ---- the connections alone ----------------------------------------------
\* The calls that make and release connections, with room for several
\* connections at once and for several anonymous opens.
InitOpen ==
  /\ objs = [h \in 1..OpenObjs |-> NoObj]
  /\ conns = [c \in 1..OpenConns |-> NoConn]
  /\ stmts = [s \in Stmts |-> NoStmt]
  /\ db_count = 0
  /\ last = Returned("init", NotUserPtr, Nil, NoSignal, <<>>, "SQLITE_OK", NULL)
  /\ crashed = FALSE

NextOpen ==
  \/ \E file \in BOOLEAN, ok \in BOOLEAN :
        (file \/ db_count < OpenAnon) /\ Fsqlite_open(file, ok)
  \/ \E a \in Args : Fsqlite_close(a)
  \/ \E h \in Held : lisp_sqlite_free(h)

SpecOpen == InitOpen /\ [][NextOpen]_vars

\* ---- several cursors on one connection ----------------------------------
\* The calls that make and use cursors, with room for the connection and
\* for two cursors made from it.
InitCursors ==
  /\ objs = [h \in 1..CursorObjs |-> NoObj]
  /\ conns = [c \in Conns |-> NoConn]
  /\ stmts = [s \in Stmts |-> NoStmt]
  /\ db_count = 0
  /\ last = Returned("init", NotUserPtr, Nil, NoSignal, <<>>, "SQLITE_OK", NULL)
  /\ crashed = FALSE

NextCursors ==
  \/ \E file \in BOOLEAN, ok \in BOOLEAN :
        (file \/ db_count < MaxCount) /\ Fsqlite_open(file, ok)
  \/ \E a \in Args : Fsqlite_close(a)
  \/ \E a \in Args : Fsqlite_select(a)
  \/ \E a \in Args : Fsqlite_next(a)
  \/ \E a \in Args : Fsqlite_columns(a)
  \/ \E a \in Args : Fsqlite_more_p(a)
  \/ \E a \in Args : Fsqlite_finalize(a)
  \/ \E h \in Held : lisp_statement_free(h)

SpecCursors == InitCursors /\ [][NextCursors]_vars

\* ---- the codec alone ----------------------------------------------------
\* One value is bound as the parameter of a statement, and the column that
\* holds it is decoded.  The engine is taken to hand back what it was given.
InitCodec ==
  /\ objs = [h \in Objs |-> NoObj]
  /\ conns = [c \in Conns |-> NoConn]
  /\ stmts = [s \in Stmts |-> NoStmt]
  /\ db_count = 0
  /\ crashed = FALSE
  /\ \E v \in CodecInputs :
       last = [op |-> "value", in |-> v, err |-> NoErr,
               cell |-> Cell("none", <<>>, 0), out |-> HostSymbol("nil")]

BindValue ==
  /\ last.op = "value"
  /\ LET b == bind_value(last.in) IN
     last' = [last EXCEPT !.op = "bound", !.err = b.err, !.cell = b.cell]
  /\ UNCHANGED <<objs, conns, stmts, db_count, crashed>>

DecodeColumn ==
  /\ last.op = "bound" /\ last.err = NoErr
  /\ last' = [last EXCEPT !.op = "decoded", !.out = column_value(last.cell)]
  /\ UNCHANGED <<objs, conns, stmts, db_count, crashed>>

NextCodec == BindValue \/ DecodeColumn

SpecCodec == InitCodec /\ [][NextCodec]_vars


\* ======================= the claims =====================================
ConnOps   == {"close", "execute", "select", "transaction", "commit",
              "rollback", "pragma"}
CursorOps == {"next", "columns", "more-p", "finalize"}

DatabaseClosed  == [sym |-> "error", msg |-> "Database closed"]
StatementClosed == [sym |-> "error", msg |-> "Statement closed"]
InvalidDatabase == [sym |-> "error", msg |-> "Invalid database object"]
InvalidSet      == [sym |-> "error", msg |-> "Invalid set object"]
WrongType       == [sym |-> "wrong-type-argument", msg |-> "sqlitep"]

\* the connection object h has been closed by sqlite-close
ClosedConn(h) ==
  /\ objs[h].fin = "lisp_sqlite_free"
  /\ \E c \in Conns : conns[c].owner = h /\ conns[c].closes > 0

\* the cursor object h has been finalized by sqlite-finalize
FinalizedCursor(h) ==
  /\ objs[h].fin = "lisp_statement_free"
  /\ \E s \in Stmts : stmts[s].owner = h /\ stmts[s].finalizes > 0

\* C1: once close has succeeded on a connection object, every later call of
\* close, execute, select, transaction, commit, rollback or pragma on it
\* signals "Database closed", makes no native call, does not read through a
\* null pointer, and leaves the object closed.
C1_ClosedConnRejected ==
  [][\A h \in Objs :
       ClosedConn(h) =>
         /\ objs'[h] = Collected \/ ClosedConn(h)'
         /\ (last'.op \in ConnOps /\ last'.arg = h) =>
              /\ ~crashed'
              /\ last'.sig = DatabaseClosed
              /\ last'.calls = <<>>
              /\ UNCHANGED <<objs, conns, stmts>>]_vars

\* C2: the native resource of every object is released exactly once: never
\* twice, not at all while the object is open, once when sqlite-close or
\* sqlite-finalize has nulled its pointer, and once when the object has been
\* collected, whether or not it was closed explicitly before.
ReleasedOnce(n, h, ptr) ==
  /\ n <= 1
  /\ (objs[h] = Collected => n = 1)
  /\ (objs[h] # Collected => (n = 1 <=> ptr = NULL))

C2_ReleasedExactlyOnce ==
  /\ \A c \in Conns :
       conns[c].owner # 0 =>
         ReleasedOnce(conns[c].closes, conns[c].owner, objs[conns[c].owner].db)
  /\ \A s \in Stmts :
       stmts[s].owner # 0 =>
         ReleasedOnce(stmts[s].finalizes, stmts[s].owner, objs[stmts[s].owner].stmt)

\* the finalizer ran on an object that had been closed / finalized explicitly
\* and released nothing again; and it ran on one that had not, and released it
C2_Witness ==
  /\ last.op = "gc" /\ last.calls = <<>>
  /\ \E s \in Stmts : stmts[s].owner = last.arg /\ stmts[s].finalizes = 1
  /\ \E c \in Conns : /\ conns[c].closes = 1
                      /\ objs[conns[c].owner] = Collected

\* C3: an execute or select that signals after a native statement was
\* allocated has finalized that statement.
C3_RaisedStatementFinalized ==
  (/\ last.op \in {"execute", "select"}
   /\ ~crashed
   /\ last.sig # NoSignal
   /\ last.stmt # NULL) => stmts[last.stmt].state = "finalized"

\* C4: once finalize has succeeded on a cursor object, every later next,
\* columns, more-p and finalize on it signals "Statement closed" and makes no
\* native call, and the cursor stays finalized.
C4_FinalizedCursorRejected ==
  [][\A h \in Objs :
       FinalizedCursor(h) =>
         /\ objs'[h] = Collected \/ (FinalizedCursor(h)' /\ objs'[h].stmt = NULL)
         /\ (last'.op \in CursorOps /\ last'.arg = h) =>
              /\ last'.sig = StatementClosed
              /\ last'.calls = <<>>
              /\ UNCHANGED <<objs, conns, stmts>>]_vars

C4_Witness ==
  /\ last.op = "next" /\ last.sig = StatementClosed
  /\ FinalizedCursor(last.arg)

\* C5: a next that returns on an open cursor whose statement stands before
\* row p + 1 of n returns row p + 1, and after row n it returns the end
\* marker (nil) and the statement starts over; more-p answers t exactly while
\* no next on the cursor has returned the end marker yet.
OpenCursor(h) ==
  /\ objs[h].fin = "lisp_statement_free"
  /\ objs[h].stmt # NULL

C5_NextInOrder ==
  /\ [][\A h \in Objs :
          (/\ OpenCursor(h)
           /\ last'.op = "next" /\ last'.arg = h /\ last'.sig = NoSignal) =>
            LET st == stmts[objs[h].stmt]
                p  == IF st.halted THEN 0 ELSE st.pos
            IN IF p < st.nrows
               THEN last'.val = RowVal(p + 1)
               ELSE last'.val = Nil /\ objs'[h].eof]_vars
  /\ [](\A h \in Objs :
          OpenCursor(h) =>
            /\ objs[h].eof <=> stmts[objs[h].stmt].everDone
            /\ (last.op = "more-p" /\ last.arg = h) =>
                 (last.val = T <=> ~stmts[objs[h].stmt].everDone))

\* every row of a MaxRows-row query was returned and then the end marker
C5_Witness ==
  /\ last.op = "next" /\ last.sig = NoSignal /\ last.val = Nil
  /\ OpenCursor(last.arg)
  /\ stmts[last.stmt].nrows = MaxRows /\ stmts[last.stmt].pos = MaxRows
  /\ objs[last.arg].eof

\* C6: the end-of-data flag is false in a new cursor object, and no call
\* sets it back to false for as long as the object exists.
C6_EofMonotone ==
  [][\A h \in Objs :
       /\ (objs[h].fin = "none" /\ objs'[h].fin = "lisp_statement_free")
            => ~objs'[h].eof
       /\ objs[h].eof => (objs'[h].eof \/ objs'[h] = Collected)]_vars

\* a next returned a row on a cursor whose flag was already set
C6_Witness ==
  /\ last.op = "next" /\ last.val.tag = "row"
  /\ OpenCursor(last.arg) /\ objs[last.arg].eof

\* C7: validation has four outcomes, and in the three failing ones the
\* call does nothing more.
Expected(op, a) ==
  LET right == IF op \in ConnOps THEN "lisp_sqlite_free" ELSE "lisp_statement_free"
      other == IF op \in ConnOps THEN "lisp_statement_free" ELSE "lisp_sqlite_free"
      fin   == IF a \in Objs THEN objs[a].fin ELSE "none"
  IN IF fin = right
     THEN IF op \in ConnOps
          THEN IF ClosedConn(a) /\ ~(op = "close" /\ last.sig = NoSignal)
               THEN DatabaseClosed ELSE NoSignal
          ELSE IF FinalizedCursor(a) /\ ~(op = "finalize" /\ last.sig = NoSignal)
               THEN StatementClosed ELSE NoSignal
     ELSE IF fin = other
     THEN IF op \in ConnOps THEN InvalidDatabase ELSE InvalidSet
     ELSE WrongType

ValidationSignals == {DatabaseClosed, StatementClosed, InvalidDatabase,
                      InvalidSet, WrongType}

C7_FourOutcomes ==
  (last.op \in ConnOps \cup CursorOps) =>
    /\ Expected(last.op, last.arg) # NoSignal =>
         /\ ~crashed
         /\ last.sig = Expected(last.op, last.arg)
         /\ last.calls = <<>>
    /\ (Expected(last.op, last.arg) = NoSignal /\ ~crashed) =>
         last.sig \notin ValidationSignals

\* C8: an eager select steps until a status other than SQLITE_ROW, collects
\* the rows in step order, finalizes the statement, and signals when the
\* status that ended the loop is neither SQLITE_OK nor SQLITE_DONE.
Stepped(l) == \E i \in 1..Len(l.calls) : l.calls[i].f = "sqlite3_step"

C8_EagerSelect ==
  (last.op = "select" /\ Stepped(last)) =>
    /\ stmts[last.stmt].state = "finalized"
    /\ IF last.ret \in {"SQLITE_OK", "SQLITE_DONE"}
       THEN /\ last.sig = NoSignal
            /\ \A i \in 1..Len(last.val.rows) : last.val.rows[i] = i
       ELSE last.sig # NoSignal

\* C9: in execute, a prepare or step status that is a failure is signalled
\* as sqlite_locked_error exactly when it is SQLITE_LOCKED or SQLITE_BUSY,
\* and as error with the engine's message otherwise.
C9_ExecuteLocked ==
  (/\ last.op = "execute"
   /\ ~crashed
   /\ last.ret \notin {"SQLITE_OK", "SQLITE_DONE"}) =>
    /\ last.sig.msg = "sqlite3_errmsg"
    /\ last.sig.sym = IF last.ret \in {"SQLITE_LOCKED", "SQLITE_BUSY"}
                      THEN "sqlite_locked_error" ELSE "error"

\* the step of an execute returned SQLITE_BUSY
C9_Witness ==
  /\ last.op = "execute" /\ last.ret = "SQLITE_BUSY" /\ Stepped(last)
  /\ last.sig.sym = "sqlite_locked_error"

\* C10: in every call that signals, a native SQLITE_LOCKED or SQLITE_BUSY
\* status is signalled as sqlite_locked_error.
C10_LockedEverywhere ==
  (/\ last.op \in {"execute", "select", "next"}
   /\ ~crashed
   /\ last.sig # NoSignal
   /\ last.ret \in {"SQLITE_LOCKED", "SQLITE_BUSY"}) =>
    last.sig.sym = "sqlite_locked_error"

\* the connections sqlite3_open_v2 made for an in-memory database
Anonymous == {c \in DOMAIN conns : conns[c].name[1] = ":memory:"}

\* C11: every open without a file name raises db_count by one and names its
\* database with the new count, whether sqlite3_open_v2 succeeds or not, and
\* an open with a file name leaves db_count alone; so no two connections made
\* without a file name have the same database name.
C11_AnonymousNamesUnique ==
  /\ [][last'.op = "open" =>
         IF last'.calls[1].arg # 0
         THEN /\ db_count' = db_count + 1
              /\ last'.calls[1].arg = db_count'
              /\ \A c \in Anonymous : conns[c].name[2] < db_count'
              /\ last'.val # Nil =>
                   conns'[objs'[last'.val.obj].db].name = <<":memory:", db_count'>>
         ELSE db_count' = db_count]_vars
  /\ [](\A c1, c2 \in Anonymous :
          c1 # c2 => conns[c1].name # conns[c2].name)

\* two in-memory connections are open at once, and an open that failed and
\* an open of a file took place between the two
C11_Witness ==
  \E c1, c2, c3 \in DOMAIN conns :
    /\ conns[c1].state = "open" /\ conns[c1].name = <<":memory:", 1>>
    /\ conns[c2].state = "open" /\ conns[c2].name = <<":memory:", 3>>
    /\ conns[c3].name[1] = "file"

FlagOps == {"transaction", "commit", "rollback", "pragma"}

C13_FlagsNotRaised ==
  [][/\ \A h \in DOMAIN objs :
          (/\ last'.op \in FlagOps /\ last'.arg = h
           /\ objs[h].fin = "lisp_sqlite_free" /\ objs[h].db # NULL) =>
            /\ ~crashed'
            /\ last'.calls = <<ConnCall("sqlite3_exec", objs[h].db, conns)>>
            /\ ~last'.calls[1].stale
            /\ last'.sig = NoSignal
            /\ last'.val = IF last'.ret = "SQLITE_OK" THEN T ELSE Nil
            /\ UNCHANGED <<objs, conns, stmts>>
     /\ (last'.op = "open" /\ last'.ret # "SQLITE_OK") =>
            /\ last'.val = Nil /\ last'.sig = NoSignal
            /\ Len(last'.calls) = 1 /\ last'.calls[1].f = "sqlite3_open_v2"
            /\ UNCHANGED <<objs, conns, stmts>>]_vars

\* the sqlite3_exec of a transaction on an open connection failed, after an
\* open that failed
C13_Witness ==
  /\ last.op = "transaction" /\ last.ret = "SQLITE_ERROR" /\ last.val = Nil
  /\ last.sig = NoSignal /\ ~crashed
  /\ objs[last.arg].fin = "lisp_sqlite_free" /\ objs[last.arg].db # NULL
  /\ db_count = 1 /\ conns[objs[last.arg].db].name[1] = "file"

\* host equality of two values: text properties are no part of it
equal(a, b) ==
  /\ a.type = b.type /\ a.name = b.name /\ a.len = b.len
  /\ a.bytes = b.bytes /\ a.num = b.num

\* a binary-tagged string whose length in bytes is its length in characters
UnibyteBlob(v) ==
  v.type = "string" /\ v.coding = "binary" /\ v.len = Len(v.bytes)

CallsOf(l, f) == {i \in 1..Len(l.calls) : l.calls[i].f = f}

\* C15: an execute that returns without signalling has made exactly one
\* sqlite3_prepare_v2 call, on the connection of its object, has stepped the
\* one statement that call made exactly once, with a status of SQLITE_OK or
\* SQLITE_DONE, has finalized the statement right after the step, and returns
\* the integer of the sqlite3_changes call it makes last; it makes no call on
\* any other statement.
C15_ExecuteFirstStatementOnce ==
  (last.op = "execute" /\ last.sig = NoSignal /\ ~crashed) =>
    LET n == Len(last.calls) IN
    /\ last.ret \in {"SQLITE_OK", "SQLITE_DONE"}
    /\ CallsOf(last, "sqlite3_prepare_v2") = {1}
    /\ last.calls[1].id = objs[last.arg].db
    /\ CallsOf(last, "sqlite3_step") = {n - 2}
    /\ CallsOf(last, "sqlite3_finalize") = {n - 1}
    /\ CallsOf(last, "sqlite3_changes") = {n}
    /\ last.calls[n].id = objs[last.arg].db
    /\ \A i \in 1..n :
         /\ ~last.calls[i].stale
         /\ last.calls[i].kind = "stmt" => last.calls[i].id = last.stmt
    /\ stmts[last.stmt].state = "finalized" /\ stmts[last.stmt].finalizes = 1
    /\ last.val = IntVal

\* an execute with two bound values succeeded
C15_Witness ==
  /\ last.op = "execute" /\ last.sig = NoSignal /\ last.val = IntVal
  /\ last.ret = "SQLITE_DONE"
  /\ Len(last.input.elems) = 2
  /\ CallsOf(last, "sqlite3_bind_int64") = {3, 4}

\* the rows 1..k in order
RowsTo(k) == [i \in 1..k |-> i]

BoundPositions(l) ==
  LET bc == SelectSeq(l.calls, LAMBDA c : c.f \in {BindFn(e) : e \in ElemKinds})
  IN [i \in 1..Len(bc) |-> bc[i].arg]

\* the positions of elems that cannot be bound: an element of a type
\* bind_values does not know, a multibyte string tagged binary, and the
\* position whose native bind call fails
Unbindable(elems, failAt) ==
  {i \in 1..Len(elems) :
     elems[i] \in {"symbol", "multibyte-blob"} \/ i = failAt}

\* C17: an execute or select given elements to bind makes the native bind
\* calls for positions 1, 2, ... in order up to the first position that
\* cannot be bound and none after it (the call at that position is made
\* when it is the native call that fails); it then signals "invalid
\* argument" for an unknown type, "BLOB values must be unibyte" for a
\* multibyte binary string and the engine's message for a failed native
\* call, and does not step the statement.
C17_BindStopsAtFirstFailure ==
  (last.op \in {"execute", "select"} /\ last.input.elems # <<>>) =>
    LET elems == last.input.elems
        bad   == Unbindable(elems, last.input.failAt)
        first == IF bad = {} THEN Len(elems) + 1 ELSE Lowest(bad)
    IN
    /\ BoundPositions(last) =
         RowsTo(IF first = last.input.failAt THEN first ELSE first - 1)
    /\ bad # {} =>
         /\ CallsOf(last, "sqlite3_step") = {}
         /\ last.sig.sym = "error"
         /\ last.sig.msg =
              IF first = last.input.failAt THEN "sqlite3_errmsg"
              ELSE IF elems[first] = "symbol" THEN "invalid argument"
              ELSE "BLOB values must be unibyte"

\* the native bind call of the first of two elements failed in an execute
C17_Witness ==
  /\ last.op = "execute"
  /\ last.input.elems = <<"integer", "integer">> /\ last.input.failAt = 1
  /\ BoundPositions(last) = <<1>>
  /\ last.sig.msg = "sqlite3_errmsg"

\* the cursor objects
Cursors == {h \in DOMAIN objs : objs[h].fin = "lisp_statement_free"}

\* the call l was next, columns, more-p or finalize, or the collection of a
\* cursor
CursorOp(l) ==
  \/ l.op \in {"next", "columns", "more-p", "finalize"}
  \/ l.op = "gc" /\ objs[l.arg].fin = "lisp_statement_free"

\* C18: next, columns, more-p, finalize and the finalizer of a cursor leave
\* every connection as it was, open or closed, in the engine and in its
\* object, make no sqlite3_close call, and leave every other cursor's
\* object (statement pointer, end-of-data flag) and statement (position) as
\* they were.
C18_CursorOpsAreLocal ==
  [][CursorOp(last') =>
       /\ conns' = conns
       /\ \A h \in DOMAIN objs :
            objs[h].fin = "lisp_sqlite_free" => objs'[h] = objs[h]
       /\ CallsOf(last', "sqlite3_close") = {}
       /\ \A g \in Cursors \ {last'.arg} :
            /\ objs'[g] = objs[g]
            /\ objs[g].stmt # NULL =>
                 stmts'[objs[g].stmt] = stmts[objs[g].stmt]]_vars

\* a cursor returned its first row while another open cursor of the same
\* connection stands at its second
C18_Witness ==
  /\ last.op = "next" /\ last.val = RowVal(1)
  /\ OpenCursor(last.arg)
  /\ \E g \in DOMAIN objs \ {last.arg} :
       /\ OpenCursor(g) /\ objs[g].db = objs[last.arg].db
       /\ conns[objs[g].db].state = "open"
       /\ stmts[objs[g].stmt].pos = 2

\* C19: more-p on an open cursor answers t when the end-of-data flag is
\* false and nil when it is true, makes no native call, and changes neither
\* the objects nor the statements nor the connections, so that the next
\* step of the cursor has the outcomes it had before the call.
C19_MorePObserves ==
  [][(last'.op = "more-p" /\ last'.arg \in DOMAIN objs /\ OpenCursor(last'.arg)) =>
       LET h == last'.arg IN
       /\ last'.val = IF objs[h].eof THEN Nil ELSE T
       /\ last'.sig = NoSignal
       /\ last'.calls = <<>>
       /\ UNCHANGED <<objs, conns, stmts, db_count, crashed>>
       /\ StepOutcomes(stmts'[objs'[h].stmt]) = StepOutcomes(stmts[objs[h].stmt])]_vars

\* more-p answered nil on an open cursor that has read all its rows
C19_Witness ==
  /\ last.op = "more-p" /\ last.arg \in DOMAIN objs /\ OpenCursor(last.arg)
  /\ last.val = Nil /\ last.sig = NoSignal
  /\ objs[last.arg].eof
  /\ stmts[objs[last.arg].stmt].nrows = MaxRows

\* C20: when the step of a next on an open cursor returns a status other
\* than SQLITE_ROW, SQLITE_OK and SQLITE_DONE, the call signals the
\* engine's message, read with sqlite3_errmsg on the connection pointer of
\* the cursor, and leaves every object as it was: the end-of-data flag
\* keeps its value, the statement pointer stays set and the statement is
\* not finalized.
C20_FailedNextKeepsCursor ==
  [][(/\ last'.op = "next" /\ last'.arg \in DOMAIN objs /\ OpenCursor(last'.arg)
      /\ last'.ret \notin {"SQLITE_ROW", "SQLITE_OK", "SQLITE_DONE"}) =>
       LET h == last'.arg
           s == objs[h].stmt
       IN
       /\ last'.sig = [sym |-> "error", msg |-> "sqlite3_errmsg"]
       /\ last'.val = Nil
       /\ objs' = objs
       /\ objs'[h].stmt # NULL /\ objs'[h].eof = objs[h].eof
       /\ stmts'[s].state = stmts[s].state
       /\ stmts'[s].finalizes = stmts[s].finalizes
       /\ Len(last'.calls) = 2
       /\ last'.calls[1].f = "sqlite3_step" /\ last'.calls[1].id = s
       /\ last'.calls[2].f = "sqlite3_errmsg"
       /\ last'.calls[2].kind = "db" /\ last'.calls[2].id = objs[h].db]_vars

\* the step of a cursor whose flag was set returned SQLITE_BUSY
C20_Witness ==
  /\ last.op = "next" /\ last.ret = "SQLITE_BUSY"
  /\ last.sig.msg = "sqlite3_errmsg"
  /\ OpenCursor(last.arg) /\ objs[last.arg].eof
  /\ stmts[objs[last.arg].stmt].state = "live"

\* the native call c was made on a statement that had been finalized, or on
\* a connection pointer that had been closed (a call on a null pointer is
\* not a call on a released resource)
OnReleased(c) == c.stale /\ c.id # NULL

\* C21: no call of the engine is made on a released resource: no statement
\* is given to the engine after its sqlite3_finalize, and no connection
\* pointer, that of a cursor included, after its sqlite3_close.
C21_NoCallOnReleased ==
  \A i \in 1..Len(last.calls) : ~OnReleased(last.calls[i])
====
